---- MODULE Spec2Model ----
(***************************************************************************)
(* A model of the chess-tui application: the App / Game state machine of   *)
(* src/app.rs, src/game_logic/game.rs and src/handler.rs, driven by key    *)
(* and mouse events.  GameBoard, UI, Coord and the piece rules are not     *)
(* part of the sources at hand; they are modelled from the specification   *)
(* (sections 3 and 4), in the coordinate convention game.rs relies on:     *)
(* the grid is physically rotated after each ply, so the side to move sits *)
(* at the bottom and moves towards row 0.                                  *)
(***************************************************************************)
EXTENDS Integers, Sequences, FiniteSets, TLC

VARIABLES app, plies

vars == <<app, plies>>

(***************************************************************************)
(* Coord (spec 4.1)                                                        *)
(***************************************************************************)
UNDEFINED_POSITION == 254

Coord(r, c) == [row |-> r, col |-> c]

undefined == Coord(UNDEFINED_POSITION, UNDEFINED_POSITION)

is_valid(c) == c.row \in 0..7 /\ c.col \in 0..7

AllCoords == {Coord(r, c) : r \in 0..7, c \in 0..7}

\* 180-degree rotation of a coordinate, the coordinate form of flip_the_board
FlipCoord(c) == Coord(7 - c.row, 7 - c.col)

(***************************************************************************)
(* Pieces and the 8x8 grid (spec 3, 4.2).  A cell is <<>> (None) or        *)
(* <<PieceType, PieceColor>>; board[row + 1][col + 1] is cell (row, col).  *)
(***************************************************************************)
NoPiece == <<>>

Opposite(color) == IF color = "White" THEN "Black" ELSE "White"

BackRankTypes == <<"Rook", "Knight", "Bishop", "Queen", "King", "Bishop", "Knight", "Rook">>

init_board ==
    [i \in 1..8 |->
        [j \in 1..8 |->
            CASE i = 1 -> <<BackRankTypes[j], "Black">>
              [] i = 2 -> <<"Pawn", "Black">>
              [] i = 7 -> <<"Pawn", "White">>
              [] i = 8 -> <<BackRankTypes[j], "White">>
              [] OTHER -> NoPiece]]

At(board, c) == board[c.row + 1][c.col + 1]

SetCell(board, r, c, piece) == [board EXCEPT ![r + 1][c + 1] = piece]

GameBoardDefault ==
    [board |-> init_board,
     move_history |-> <<>>,
     board_history |-> <<init_board>>,
     consecutive_non_pawn_or_capture |-> 0,
     taken_pieces |-> <<>>,
     flipped |-> FALSE]

get_piece_type(gb, c) ==
    IF is_valid(c) /\ At(gb.board, c) # NoPiece THEN At(gb.board, c)[1] ELSE "None"

get_piece_color(gb, c) ==
    IF is_valid(c) /\ At(gb.board, c) # NoPiece THEN At(gb.board, c)[2] ELSE "None"

\* flip_the_board: every square goes to the mirrored position
flip_the_board(gb) ==
    [gb EXCEPT !.board = [i \in 1..8 |-> [j \in 1..8 |-> gb.board[9 - i][9 - j]]],
               !.flipped = ~gb.flipped]

\* The color whose home rank is row 7 in the current orientation
Bottom(gb) == IF gb.flipped THEN "Black" ELSE "White"

\* Row direction in which pawns of a color advance
Forward(gb, color) == IF color = Bottom(gb) THEN -1 ELSE 1

HomeRow(gb, color) == IF color = Bottom(gb) THEN 7 ELSE 0

BackRow(gb, color) == IF color = Bottom(gb) THEN 0 ELSE 7

\* A coordinate recorded while `color` sat at the bottom, in the current orientation
ToCurrent(gb, c, color) == IF color = Bottom(gb) THEN c ELSE FlipCoord(c)

IsColor(board, r, c, color) ==
    /\ r \in 0..7 /\ c \in 0..7
    /\ board[r + 1][c + 1] # NoPiece
    /\ board[r + 1][c + 1][2] = color

IsEmpty(board, r, c) == r \in 0..7 /\ c \in 0..7 /\ board[r + 1][c + 1] = NoPiece

(***************************************************************************)
(* Piece movement rules (spec 4.3): pseudo-legal destinations              *)
(***************************************************************************)
KnightOffsets == {<<-2, -1>>, <<-2, 1>>, <<-1, -2>>, <<-1, 2>>, <<1, -2>>, <<1, 2>>, <<2, -1>>, <<2, 1>>}

KingOffsets == {<<-1, -1>>, <<-1, 0>>, <<-1, 1>>, <<0, -1>>, <<0, 1>>, <<1, -1>>, <<1, 0>>, <<1, 1>>}

RookDirs == {<<-1, 0>>, <<1, 0>>, <<0, -1>>, <<0, 1>>}

BishopDirs == {<<-1, -1>>, <<-1, 1>>, <<1, -1>>, <<1, 1>>}

\* Offsets of the pieces that move by one step
StepOffsets(type) ==
    CASE type = "Knight" -> KnightOffsets
      [] type = "King" -> KingOffsets
      [] OTHER -> {}

\* Directions of the pieces that slide
SlideDirs(type) ==
    CASE type = "Rook" -> RookDirs
      [] type = "Bishop" -> BishopDirs
      [] type = "Queen" -> RookDirs \cup BishopDirs
      [] OTHER -> {}

StepMoves(board, from, color, offsets) ==
    {Coord(from.row + o[1], from.col + o[2]) : o \in
        {o \in offsets :
            /\ from.row + o[1] \in 0..7 /\ from.col + o[2] \in 0..7
            /\ ~IsColor(board, from.row + o[1], from.col + o[2], color)}}

\* Slide until blocked: a friendly blocker is excluded, an enemy blocker included
SlideMoves(board, from, color, dirs) ==
    UNION {{Coord(from.row + k * d[1], from.col + k * d[2]) : k \in
        {k \in 1..7 :
            /\ from.row + k * d[1] \in 0..7 /\ from.col + k * d[2] \in 0..7
            /\ ~IsColor(board, from.row + k * d[1], from.col + k * d[2], color)
            /\ \A j \in 1..(k - 1) : IsEmpty(board, from.row + j * d[1], from.col + j * d[2])}}
        : d \in dirs}

LastMove(gb) == gb.move_history[Len(gb.move_history)]

\* The ply `last` was a two-square advance of an enemy pawn that now stands
\* beside `from`, and `to` is the square diagonally ahead, behind that pawn
PassedBy(gb, from, to, color, last) ==
    /\ last.piece_type = "Pawn"
    /\ last.piece_color # color
    /\ (last.from.row - last.to.row) \in {2, -2}
    /\ to.row = from.row + Forward(gb, color)
    /\ (to.col - from.col) \in {1, -1}
    /\ ToCurrent(gb, last.to, last.piece_color) = Coord(from.row, to.col)
    /\ At(gb.board, Coord(from.row, to.col)) = <<"Pawn", last.piece_color>>

\* En-passant eligibility (spec 4.6)
EnPassantEligible(gb, from, to) ==
    /\ is_valid(from) /\ is_valid(to)
    /\ At(gb.board, from) # NoPiece
    /\ At(gb.board, from)[1] = "Pawn"
    /\ At(gb.board, to) = NoPiece
    /\ Len(gb.move_history) > 0
    /\ PassedBy(gb, from, to, At(gb.board, from)[2], LastMove(gb))

\* The squares a pawn may go to when nothing is in its way: one and two
\* squares ahead, and the two diagonals
PawnTargets(from, d) ==
    {Coord(from.row + d, from.col + s) : s \in {-1, 0, 1}} \cup {Coord(from.row + 2 * d, from.col)}

\* Forward onto empty squares (two squares from the starting rank only),
\* diagonally onto an enemy piece or en passant
PawnMayGo(gb, from, to, color, d) ==
    IF to.col = from.col
    THEN /\ IsEmpty(gb.board, from.row + d, from.col)
         /\ \/ to.row = from.row + d
            \/ from.row = HomeRow(gb, color) + d /\ IsEmpty(gb.board, to.row, to.col)
    ELSE \/ IsColor(gb.board, to.row, to.col, Opposite(color))
         \/ EnPassantEligible(gb, from, to)

PawnMoves(gb, from, color) ==
    {to \in PawnTargets(from, Forward(gb, color)) :
        is_valid(to) /\ PawnMayGo(gb, from, to, color, Forward(gb, color))}

\* pseudo_legal_destinations without the castling candidates
PseudoLegal(gb, from, type, color) ==
    IF type = "Pawn" THEN PawnMoves(gb, from, color)
    ELSE StepMoves(gb.board, from, color, StepOffsets(type))
            \cup SlideMoves(gb.board, from, color, SlideDirs(type))

Sign(x) == IF x > 0 THEN 1 ELSE IF x < 0 THEN -1 ELSE 0

Abs(x) == IF x < 0 THEN -x ELSE x

(***************************************************************************)
(* Attack detection (spec 4.5).  Reaches(gb, from, target) is membership   *)
(* of an occupied enemy square `target` in the pseudo-legal destinations   *)
(* of the piece on `from`, decided geometrically.                          *)
(***************************************************************************)
Straight(dr, dc) == (dr = 0 /\ dc # 0) \/ (dc = 0 /\ dr # 0)

Diagonal(dr, dc) == dr # 0 /\ Abs(dr) = Abs(dc)

\* The squares strictly between `from` and the square (dr, dc) away are empty
ClearPath(board, from, dr, dc) ==
    \A j \in 1..((IF Abs(dr) > Abs(dc) THEN Abs(dr) ELSE Abs(dc)) - 1) :
        IsEmpty(board, from.row + j * Sign(dr), from.col + j * Sign(dc))

\* The displacement (dr, dc) has the shape of a capture by piece p
Shape(gb, p, dr, dc) ==
    CASE p[1] = "Pawn" -> dr = Forward(gb, p[2]) /\ Abs(dc) = 1
      [] p[1] = "Knight" -> <<dr, dc>> \in KnightOffsets
      [] p[1] = "King" -> <<dr, dc>> \in KingOffsets
      [] p[1] = "Rook" -> Straight(dr, dc)
      [] p[1] = "Bishop" -> Diagonal(dr, dc)
      [] OTHER -> Straight(dr, dc) \/ Diagonal(dr, dc)

ReachesBy(gb, p, from, dr, dc) ==
    /\ Shape(gb, p, dr, dc)
    /\ p[1] \in {"Rook", "Bishop", "Queen"} => ClearPath(gb.board, from, dr, dc)

Reaches(gb, from, target) ==
    ReachesBy(gb, At(gb.board, from), from, target.row - from.row, target.col - from.col)

PiecesOf(board, color) == {c \in AllCoords : IsColor(board, c.row, c.col, color)}

is_attacked(gb, target, by_color) ==
    \E from \in PiecesOf(gb.board, by_color) : Reaches(gb, from, target)

KingSquares(board, color) == {c \in AllCoords : At(board, c) = <<"King", color>>}

is_in_check(gb, color) ==
    \E k \in KingSquares(gb.board, color) : is_attacked(gb, k, Opposite(color))

(***************************************************************************)
(* Special-move resolver (spec 4.6).  A castling intent names the rook's   *)
(* square as destination: execute_move derives the king's square from the  *)
(* origin and clears `to` as "the latest rook".                            *)
(***************************************************************************)
KingHome(gb, color) ==
    IF color = Bottom(gb)
    THEN Coord(7, IF color = "White" THEN 4 ELSE 3)
    ELSE Coord(0, IF color = "White" THEN 3 ELSE 4)

\* Some ply left from or arrived on square sq (given in the current orientation)
HasMovedAt(gb, sq) ==
    \E i \in 1..Len(gb.move_history) :
        \/ ToCurrent(gb, gb.move_history[i].from, gb.move_history[i].piece_color) = sq
        \/ ToCurrent(gb, gb.move_history[i].to, gb.move_history[i].piece_color) = sq

\* The king on `from` may castle with the rook on `rook`, dir columns away:
\* the rook never moved, the squares between are empty, and the king is not
\* attacked where it stands (k = 0), passes (k = 1) or lands (k = 2)
CastlingPath(gb, from, rook, color, dir) ==
    /\ At(gb.board, rook) = <<"Rook", color>>
    /\ ~HasMovedAt(gb, rook)
    /\ \A c \in 0..7 :
          (c - from.col) * dir > 0 /\ (rook.col - c) * dir > 0
              => IsEmpty(gb.board, from.row, c)
    /\ \A k \in 0..2 :
          ~is_in_check([gb EXCEPT !.board =
              SetCell(SetCell(gb.board, from.row, from.col, NoPiece),
                      from.row, from.col + k * dir, <<"King", color>>)], color)

CastlingMoves(gb, from, color) ==
    IF /\ from = KingHome(gb, color)
       /\ At(gb.board, from) = <<"King", color>>
       /\ ~HasMovedAt(gb, from)
    THEN {rook \in {Coord(from.row, 0), Coord(from.row, 7)} :
            CastlingPath(gb, from, rook, color, Sign(rook.col - from.col))}
    ELSE {}

is_latest_move_castling(gb, from, to) ==
    /\ get_piece_type(gb, from) = "King"
    /\ Abs(from.col - to.col) > 1

is_latest_move_en_passant(gb, from, to) == EnPassantEligible(gb, from, to)

is_latest_move_promotion(gb) ==
    /\ Len(gb.move_history) > 0
    /\ get_piece_type(gb, LastMove(gb).to) = "Pawn"
    /\ LastMove(gb).to.row = BackRow(gb, get_piece_color(gb, LastMove(gb).to))

(***************************************************************************)
(* Legality filter (spec 4.4)                                              *)
(***************************************************************************)
\* Piece p leaves `from` (already lifted) for `to`, side effects included
SimulatedBoard(gb, from, to, p, lifted) ==
    IF p[1] = "King" /\ At(gb.board, to) = <<"Rook", p[2]>>
    THEN SetCell(SetCell(SetCell(lifted, to.row, to.col, NoPiece),
                         from.row, from.col + 2 * Sign(to.col - from.col), p),
                 from.row, from.col + Sign(to.col - from.col), <<"Rook", p[2]>>)
    ELSE IF EnPassantEligible(gb, from, to)
    THEN SetCell(SetCell(lifted, from.row, to.col, NoPiece), to.row, to.col, p)
    ELSE SetCell(lifted, to.row, to.col, p)

\* SimulateMove testing the position as it stands, the move not applied
SimulateMove_in_place(gb, from, to) == gb.board

\* The grid after moving from -> to on a scratch copy
SimulateMove(gb, from, to) ==
    SimulatedBoard(gb, from, to, At(gb.board, from),
                   SetCell(gb.board, from.row, from.col, NoPiece))

get_authorized_positions(gb, player_turn, from) ==
    IF is_valid(from) /\ get_piece_color(gb, from) = player_turn
    THEN {to \in PseudoLegal(gb, from, get_piece_type(gb, from), player_turn) \cup
                 (IF get_piece_type(gb, from) = "King"
                  THEN CastlingMoves(gb, from, player_turn) ELSE {}) :
            ~is_in_check([gb EXCEPT !.board = SimulateMove(gb, from, to)], player_turn)}
    ELSE {}

(***************************************************************************)
(* Checkmate / draw detection (spec 4.5)                                   *)
(***************************************************************************)
FIFTY_MOVE_THRESHOLD == 50

HasLegalMove(gb, color) ==
    \E from \in PiecesOf(gb.board, color) : get_authorized_positions(gb, color, from) # {}

is_checkmate(gb, color) == is_in_check(gb, color) /\ ~HasLegalMove(gb, color)

is_draw(gb, color) ==
    \/ gb.consecutive_non_pawn_or_capture >= FIFTY_MOVE_THRESHOLD
    \/ (~is_in_check(gb, color) /\ ~HasLegalMove(gb, color))

(***************************************************************************)
(* Halfmove counter and captured pieces (spec 3, 4.2)                      *)
(***************************************************************************)
increment_consecutive_non_pawn_or_capture(gb, piece_type_from, piece_type_to) ==
    IF piece_type_from = "Pawn" \/ piece_type_to # "None"
    THEN [gb EXCEPT !.consecutive_non_pawn_or_capture = 0]
    ELSE [gb EXCEPT !.consecutive_non_pawn_or_capture = @ + 1]

add_piece_to_taken_pieces(gb, from, to, player_turn) ==
    IF is_latest_move_en_passant(gb, from, to)
    THEN [gb EXCEPT !.taken_pieces = Append(@, <<"Pawn", Opposite(player_turn)>>)]
    ELSE IF get_piece_color(gb, to) = Opposite(player_turn)
    THEN [gb EXCEPT !.taken_pieces = Append(@, At(gb.board, to))]
    ELSE gb

(***************************************************************************)
(* UI: cursor and selection state                                          *)
(***************************************************************************)
UIDefault ==
    [cursor_coordinates |-> Coord(4, 4),
     selected_coordinates |-> undefined,
     selected_piece_cursor |-> 0,
     promotion_cursor |-> 0,
     mouse_used |-> FALSE,
     display_mode |-> "DEFAULT"]

is_cell_selected(ui) ==
    /\ ui.selected_coordinates.row # UNDEFINED_POSITION
    /\ ui.selected_coordinates.col # UNDEFINED_POSITION

unselect_cell(ui) ==
    IF is_cell_selected(ui)
    THEN [ui EXCEPT !.selected_coordinates = undefined,
                    !.selected_piece_cursor = 0]
    ELSE ui

CoordKey(c) == c.row * 8 + c.col

\* The first position of a set in row-major order
FirstPosition(S) == CHOOSE c \in S : \A d \in S : CoordKey(c) <= CoordKey(d)

\* The authorized positions as the list the cursor walks through (row-major)
RECURSIVE PositionList(_)
PositionList(S) ==
    IF S = {} THEN <<>>
    ELSE <<FirstPosition(S)>> \o PositionList(S \ {FirstPosition(S)})

\* The selector after a move by `direction` in a list of `length` positions
NextPieceCursor(ui, first_time_moving, direction, length) ==
    IF ui.selected_piece_cursor = 0 /\ first_time_moving THEN 0
    ELSE IF ui.selected_piece_cursor + direction < 0 THEN length - 1
    ELSE (ui.selected_piece_cursor + direction) % length

PointCursorAt(ui, list, index) ==
    [ui EXCEPT !.selected_piece_cursor = index,
               !.cursor_coordinates = list[index + 1]]

move_selected_piece_cursor(ui, first_time_moving, direction, authorized_positions) ==
    IF authorized_positions = {}
    THEN [ui EXCEPT !.cursor_coordinates = undefined]
    ELSE PointCursorAt(ui, PositionList(authorized_positions),
             NextPieceCursor(ui, first_time_moving, direction, Cardinality(authorized_positions)))

cursor_up(ui, authorized_positions) ==
    IF is_cell_selected(ui) THEN move_selected_piece_cursor(ui, FALSE, -1, authorized_positions)
    ELSE IF ui.cursor_coordinates.row > 0
    THEN [ui EXCEPT !.cursor_coordinates.row = @ - 1] ELSE ui

cursor_down(ui, authorized_positions) ==
    IF is_cell_selected(ui) THEN move_selected_piece_cursor(ui, FALSE, 1, authorized_positions)
    ELSE IF ui.cursor_coordinates.row < 7
    THEN [ui EXCEPT !.cursor_coordinates.row = @ + 1] ELSE ui

cursor_left(ui, authorized_positions) ==
    IF is_cell_selected(ui) THEN move_selected_piece_cursor(ui, FALSE, -1, authorized_positions)
    ELSE IF ui.cursor_coordinates.col > 0
    THEN [ui EXCEPT !.cursor_coordinates.col = @ - 1] ELSE ui

cursor_right(ui, authorized_positions) ==
    IF is_cell_selected(ui) THEN move_selected_piece_cursor(ui, FALSE, 1, authorized_positions)
    ELSE IF ui.cursor_coordinates.col < 7
    THEN [ui EXCEPT !.cursor_coordinates.col = @ + 1] ELSE ui

cursor_left_promotion(ui) ==
    [ui EXCEPT !.promotion_cursor = IF @ > 0 THEN @ - 1 ELSE 3]

cursor_right_promotion(ui) ==
    [ui EXCEPT !.promotion_cursor = (@ + 1) % 4]

(***************************************************************************)
(* Game (src/game_logic/game.rs).  `panicked` records that a handler       *)
(* aborted the process (an index out of bounds, unreachable!).             *)
(***************************************************************************)
GameDefault ==
    [game_board |-> GameBoardDefault,
     ui |-> UIDefault,
     player_turn |-> "White",
     game_state |-> "Playing",
     panicked |-> FALSE]

\* switch_player_turn leaving the turn with the side that has just moved
keep_player_turn(g) == g

switch_player_turn(g) == [g EXCEPT !.player_turn = Opposite(@)]

\* update_game_state testing the side that has just moved
update_game_state_for_mover(g) ==
    IF is_checkmate(g.game_board, Opposite(g.player_turn))
    THEN [g EXCEPT !.game_state = "Checkmate"]
    ELSE IF is_draw(g.game_board, Opposite(g.player_turn)) THEN [g EXCEPT !.game_state = "Draw"]
    ELSE IF is_latest_move_promotion(g.game_board) THEN [g EXCEPT !.game_state = "Promotion"]
    ELSE g

update_game_state(g) ==
    IF is_checkmate(g.game_board, g.player_turn) THEN [g EXCEPT !.game_state = "Checkmate"]
    ELSE IF is_draw(g.game_board, g.player_turn) THEN [g EXCEPT !.game_state = "Draw"]
    ELSE IF is_latest_move_promotion(g.game_board) THEN [g EXCEPT !.game_state = "Promotion"]
    ELSE g

\* Castling columns with the king sent to the clicked square itself
castling_columns_king_on_target(from, to) ==
    [king |-> to.col, rook |-> IF from.col - to.col > 0 THEN to.col + 1 ELSE to.col - 1]

\* The columns the king and the rook land on (execute_move, castling branch):
\* col_king = from_x + direction_x * 2, col_rook beside it on the inner side
castling_columns(from, to) ==
    [king |-> from.col + (IF from.col - to.col > 0 THEN -1 ELSE 1) * 2,
     rook |-> IF from.col - to.col > 0
              THEN from.col + (IF from.col - to.col > 0 THEN -1 ELSE 1) * 2 + 1
              ELSE from.col + (IF from.col - to.col > 0 THEN -1 ELSE 1) * 2 - 1]

\* kill_en_passant leaving the passed pawn on the board
kill_en_passant_spares_pawn(board, to, en_passant) == board

\* execute_move, en-passant branch: the pawn below `to` is killed
kill_en_passant(board, to, en_passant) ==
    IF en_passant /\ to.row + 1 <= 7
    THEN SetCell(board, to.row + 1, to.col, NoPiece)
    ELSE board

\* place_piece leaving the moved piece on its origin square as well
place_piece_keeps_origin(board, from, to, player_turn, castling, cols) ==
    IF castling
    THEN SetCell(SetCell(SetCell(board, to.row, cols.king, At(board, from)),
                         to.row, cols.rook, <<"Rook", player_turn>>),
                 to.row, to.col, NoPiece)
    ELSE SetCell(board, to.row, to.col, At(board, from))

\* place_piece leaving the castling rook on its origin square as well
place_piece_keeps_rook(board, from, to, player_turn, castling, cols) ==
    SetCell(IF castling
            THEN SetCell(SetCell(board, to.row, cols.king, At(board, from)),
                         to.row, cols.rook, <<"Rook", player_turn>>)
            ELSE SetCell(board, to.row, to.col, At(board, from)),
            from.row, from.col, NoPiece)

\* execute_move, castling branch or plain move, then the origin is emptied
place_piece(board, from, to, player_turn, castling, cols) ==
    SetCell(IF castling
            THEN SetCell(SetCell(SetCell(board, to.row, cols.king, At(board, from)),
                                 to.row, cols.rook, <<"Rook", player_turn>>),
                         to.row, to.col, NoPiece)
            ELSE SetCell(board, to.row, to.col, At(board, from)),
            from.row, from.col, NoPiece)

\* record_move writing down the destination as the origin of the ply as well
record_move_without_origin(g, gb, board, piece_type_from, from, to) ==
    [g EXCEPT !.game_board =
        [gb EXCEPT !.board = board,
                   !.move_history = Append(@, [piece_type |-> piece_type_from,
                                               piece_color |-> g.player_turn,
                                               from |-> to, to |-> to]),
                   !.board_history = Append(@, board)]]

\* record_move writing down the kind of the captured piece for a capture
record_move_captured_kind(g, gb, board, piece_type_from, from, to) ==
    [g EXCEPT !.game_board =
        [gb EXCEPT !.board = board,
                   !.move_history = Append(@, [piece_type |-> IF get_piece_type(gb, to) # "None"
                                                              THEN get_piece_type(gb, to)
                                                              ELSE piece_type_from,
                                               piece_color |-> g.player_turn,
                                               from |-> from, to |-> to]),
                   !.board_history = Append(@, board)]]

\* execute_move, the ply and the resulting grid are pushed on the histories
record_move(g, gb, board, piece_type_from, from, to) ==
    [g EXCEPT !.game_board =
        [gb EXCEPT !.board = board,
                   !.move_history = Append(@, [piece_type |-> piece_type_from,
                                               piece_color |-> g.player_turn,
                                               from |-> from, to |-> to]),
                   !.board_history = Append(@, board)]]

\* execute_move from the en-passant test on; an index off the grid panics
move_piece(g, gb, from, to, piece_type_from, en_passant, castling, cols) ==
    IF \/ (en_passant /\ to.row + 1 > 7)
       \/ (castling /\ (cols.king \notin 0..7 \/ cols.rook \notin 0..7))
    THEN [g EXCEPT !.panicked = TRUE]
    ELSE record_move(g, gb,
             place_piece(kill_en_passant(gb.board, to, en_passant),
                         from, to, g.player_turn, castling, cols),
             piece_type_from, from, to)

\* execute_move once the counter and the taken pieces are updated (board gb)
resolve_move(g, gb, from, to, piece_type_from) ==
    move_piece(g, gb, from, to, piece_type_from,
               is_latest_move_en_passant(gb, from, to),
               is_latest_move_castling(gb, from, to),
               castling_columns(from, to))

execute_move(g, from, to) ==
    IF ~is_valid(from) \/ ~is_valid(to) THEN g
    ELSE IF get_piece_type(g.game_board, from) = "None" THEN g
    ELSE resolve_move(g,
             add_piece_to_taken_pieces(
                 increment_consecutive_non_pawn_or_capture(
                     g.game_board, get_piece_type(g.game_board, from),
                     get_piece_type(g.game_board, to)),
                 from, to, g.player_turn),
             from, to, get_piece_type(g.game_board, from))

\* already_selected_cell_action, the draw test after the turn was switched
draw_after_move(g) ==
    IF is_draw(g.game_board, g.player_turn) THEN [g EXCEPT !.game_state = "Draw"] ELSE g

\* already_selected_cell_action, the flip unless a promotion is pending
flip_after_move(g) ==
    IF \/ ~is_latest_move_promotion(g.game_board)
       \/ is_draw(g.game_board, g.player_turn)
       \/ is_checkmate(g.game_board, g.player_turn)
    THEN [g EXCEPT !.game_board = flip_the_board(@)]
    ELSE g

\* already_selected_cell_action after execute_move returned
finish_move(moved) ==
    IF moved.panicked THEN moved
    ELSE flip_after_move(draw_after_move(
             switch_player_turn([moved EXCEPT !.ui = unselect_cell(@)])))

already_selected_cell_action(g) ==
    IF is_valid(g.ui.cursor_coordinates)
    THEN finish_move(execute_move(g, g.ui.selected_coordinates, g.ui.cursor_coordinates))
    ELSE g

\* select_piece selecting a piece that has no authorized position as well
select_piece_without_moves(g, authorized_positions) ==
    IF get_piece_color(g.game_board, g.ui.cursor_coordinates) = g.player_turn
    THEN [g EXCEPT !.ui = move_selected_piece_cursor(
              [g.ui EXCEPT !.selected_coordinates = g.ui.cursor_coordinates],
              TRUE, 1, authorized_positions)]
    ELSE g

\* select_cell once the authorized positions of the cursor cell are known
select_piece(g, authorized_positions) ==
    IF authorized_positions = {} THEN g
    ELSE IF get_piece_color(g.game_board, g.ui.cursor_coordinates) = g.player_turn
    THEN [g EXCEPT !.ui = move_selected_piece_cursor(
              [g.ui EXCEPT !.selected_coordinates = g.ui.cursor_coordinates],
              TRUE, 1, authorized_positions)]
    ELSE g

select_cell(g) ==
    select_piece(g, get_authorized_positions(g.game_board, g.player_turn,
                                             g.ui.cursor_coordinates))

PromotionPieces == <<"Queen", "Rook", "Bishop", "Knight">>

\* promote_piece pushing the new snapshot without popping the provisional one
push_promoted_snapshot(gb) ==
    [gb EXCEPT !.board_history = Append(@, gb.board)]

\* promote_piece: board_history.pop() then push(board)
replace_last_snapshot(gb) ==
    [gb EXCEPT !.board_history = Append(SubSeq(@, 1, Len(@) - 1), gb.board)]

\* replace_pawn leaving the last ply of the history as it was
replace_pawn_on_board_only(gb, to, new_piece, piece_color) ==
    [gb EXCEPT !.board = IF piece_color # "None"
                         THEN SetCell(@, to.row, to.col, <<new_piece, piece_color>>)
                         ELSE @]

\* promote_piece: the promoted piece replaces the pawn on the board (when the
\* square is occupied) and in the last ply of the history
replace_pawn(gb, to, new_piece, piece_color) ==
    [gb EXCEPT !.board = IF piece_color # "None"
                         THEN SetCell(@, to.row, to.col, <<new_piece, piece_color>>)
                         ELSE @,
               !.move_history[Len(gb.move_history)].piece_type = new_piece]

\* promote_piece, the body of `if let Some(last_move)`
promote_last_move(gb, promotion_cursor) ==
    IF Len(gb.move_history) > 0
    THEN replace_last_snapshot(
             replace_pawn(gb, LastMove(gb).to, PromotionPieces[promotion_cursor + 1],
                          get_piece_color(gb, LastMove(gb).to)))
    ELSE gb

\* promote_piece, the flip unless the game is over
flip_after_promotion(g) ==
    IF /\ ~is_draw(g.game_board, g.player_turn)
       /\ ~is_checkmate(g.game_board, g.player_turn)
    THEN [g EXCEPT !.game_board = flip_the_board(@)]
    ELSE g

\* promote_piece leaving the promotion cursor on the chosen icon
promote_piece_keeps_cursor(g) ==
    IF Len(g.game_board.move_history) > 0 /\ g.ui.promotion_cursor \notin 0..3
    THEN [g EXCEPT !.panicked = TRUE]
    ELSE flip_after_promotion(
             [g EXCEPT !.game_board = promote_last_move(@, g.ui.promotion_cursor),
                       !.game_state = "Playing"])

promote_piece(g) ==
    IF Len(g.game_board.move_history) > 0 /\ g.ui.promotion_cursor \notin 0..3
    THEN [g EXCEPT !.panicked = TRUE]
    ELSE flip_after_promotion(
             [g EXCEPT !.game_board = promote_last_move(@, g.ui.promotion_cursor),
                       !.game_state = "Playing",
                       !.ui.promotion_cursor = 0])

handle_promotion(g) == promote_piece(g)

\* handle_cell_click, the trailing update_game_state
finish_click(g) == IF g.panicked THEN g ELSE update_game_state(g)

\* handle_cell_click returning without the trailing update_game_state
handle_cell_click_without_update(g) ==
    IF g.game_state = "Promotion" THEN handle_promotion(g)
    ELSE IF g.game_state # "Checkmate" /\ g.game_state # "Draw"
    THEN IF is_cell_selected(g.ui) THEN already_selected_cell_action(g)
         ELSE select_cell(g)
    ELSE g

\* handle_cell_click treating a pending promotion as a game in play
handle_cell_click_ignoring_promotion(g) ==
    finish_click(IF g.game_state # "Checkmate" /\ g.game_state # "Draw"
                 THEN IF is_cell_selected(g.ui) THEN already_selected_cell_action(g)
                      ELSE select_cell(g)
                 ELSE g)

\* handle_cell_click going on after the game has ended
handle_cell_click_after_end(g) ==
    finish_click(IF g.game_state = "Promotion" THEN handle_promotion(g)
                 ELSE IF is_cell_selected(g.ui) THEN already_selected_cell_action(g)
                 ELSE select_cell(g))

handle_cell_click(g) ==
    finish_click(IF g.game_state = "Promotion" THEN handle_promotion(g)
                 ELSE IF g.game_state # "Checkmate" /\ g.game_state # "Draw"
                 THEN IF is_cell_selected(g.ui) THEN already_selected_cell_action(g)
                      ELSE select_cell(g)
                 ELSE g)

(***************************************************************************)
(* App (src/app.rs)                                                        *)
(***************************************************************************)
AppDefault ==
    [running |-> TRUE,
     game |-> GameDefault,
     current_page |-> "Home",
     current_popup |-> "None",
     selected_color |-> "None",
     menu_cursor |-> 0]

PAGES_VARIANT_COUNT == 4

toggle_help_popup(a) ==
    IF a.current_popup = "Help" THEN [a EXCEPT !.current_popup = "None"]
    ELSE [a EXCEPT !.current_popup = "Help"]

quit(a) == [a EXCEPT !.running = FALSE]

menu_cursor_up(a, l) ==
    [a EXCEPT !.menu_cursor = IF @ > 0 THEN @ - 1 ELSE l - 1]

menu_cursor_right(a, l) ==
    [a EXCEPT !.menu_cursor = IF @ < l - 1 THEN @ + 1 ELSE 0]

menu_cursor_left(a, l) ==
    [a EXCEPT !.menu_cursor = IF @ > 0 THEN @ - 1 ELSE l - 1]

menu_cursor_down(a, l) ==
    [a EXCEPT !.menu_cursor = IF @ < l - 1 THEN @ + 1 ELSE 0]

\* restart putting the pieces back without renewing the rest of the game
restart_board_only(a) ==
    [a EXCEPT !.game.game_board = GameBoardDefault, !.current_popup = "None"]

restart(a) == [a EXCEPT !.game = GameDefault, !.current_popup = "None"]

go_to_home(a) == restart([a EXCEPT !.current_page = "Home"])

menu_select(a) ==
    CASE a.menu_cursor = 0 -> [a EXCEPT !.current_page = "Solo"]
      [] a.menu_cursor = 1 -> [a EXCEPT !.game.ui.display_mode =
                                    IF @ = "ASCII" THEN "DEFAULT" ELSE "ASCII"]
      [] a.menu_cursor = 2 -> toggle_help_popup(a)
      [] a.menu_cursor = 3 -> [a EXCEPT !.current_page = "Credit"]
      [] OTHER -> a

(***************************************************************************)
(* Key events (src/handler.rs)                                             *)
(***************************************************************************)
SelectedPositions(a) ==
    get_authorized_positions(a.game.game_board, a.game.player_turn,
                             a.game.ui.selected_coordinates)

Terminal(a) == a.game.game_state = "Checkmate" \/ a.game.game_state = "Draw"

\* A key pressed after the mouse was used: the cursor goes back to the
\* selected cell, or to the centre of the board
reset_mouse_used(a) ==
    IF a.game.ui.mouse_used
    THEN IF a.game.ui.selected_coordinates # undefined
         THEN [a EXCEPT !.game.ui.mouse_used = FALSE,
                        !.game.ui.cursor_coordinates = a.game.ui.selected_coordinates,
                        !.game.ui.selected_coordinates = undefined]
         ELSE [a EXCEPT !.game.ui.mouse_used = FALSE,
                        !.game.ui.cursor_coordinates = Coord(4, 4)]
    ELSE a

\* Esc: the popup that is open is closed
close_popup(a) ==
    CASE a.current_popup = "ColorSelection" ->
             [a EXCEPT !.current_popup = "None",
                       !.selected_color = "None",
                       !.current_page = "Home",
                       !.menu_cursor = 0]
      [] a.current_popup = "Help" -> [a EXCEPT !.current_popup = "None"]
      [] OTHER -> a

\* Esc: the credit page is left
leave_credit(a) ==
    IF a.current_page = "Credit" THEN [a EXCEPT !.current_page = "Home"] ELSE a

\* The match on key_event.code
key_pressed(a, code) ==
    CASE code = "q" -> quit(a)
      [] code = "Right" ->
            IF a.selected_color = "None" THEN menu_cursor_right(a, 2)
            ELSE IF a.game.game_state = "Promotion"
            THEN [a EXCEPT !.game.ui = cursor_right_promotion(@)]
            ELSE IF ~Terminal(a)
            THEN [a EXCEPT !.game.ui = cursor_right(@, SelectedPositions(a))]
            ELSE a
      [] code = "Left" ->
            IF a.selected_color = "None" THEN menu_cursor_left(a, 2)
            ELSE IF a.game.game_state = "Promotion"
            THEN [a EXCEPT !.game.ui = cursor_left_promotion(@)]
            ELSE IF ~Terminal(a)
            THEN [a EXCEPT !.game.ui = cursor_left(@, SelectedPositions(a))]
            ELSE a
      [] code = "Up" ->
            IF a.current_page = "Home" THEN menu_cursor_up(a, PAGES_VARIANT_COUNT)
            ELSE IF ~Terminal(a) /\ a.game.game_state # "Promotion"
            THEN [a EXCEPT !.game.ui = cursor_up(@, SelectedPositions(a))]
            ELSE a
      [] code = "Down" ->
            IF a.current_page = "Home" THEN menu_cursor_down(a, PAGES_VARIANT_COUNT)
            ELSE IF ~Terminal(a) /\ a.game.game_state # "Promotion"
            THEN [a EXCEPT !.game.ui = cursor_down(@, SelectedPositions(a))]
            ELSE a
      [] code = "Enter" ->
            CASE a.current_page = "Home" -> menu_select(a)
              [] a.current_page = "Credit" -> [a EXCEPT !.current_page = "Home"]
              [] OTHER -> [a EXCEPT !.game = handle_cell_click(@)]
      [] code = "?" ->
            IF a.current_page # "Credit" THEN toggle_help_popup(a) ELSE a
      [] code = "r" -> restart(a)
      [] code = "Esc" ->
            [leave_credit(close_popup(a)) EXCEPT !.game.ui = unselect_cell(@)]
      [] code = "b" ->
            [go_to_home([a EXCEPT !.selected_color = "None"]) EXCEPT
                !.game.game_board = GameBoardDefault,
                !.game.ui = [UIDefault EXCEPT !.display_mode = a.game.ui.display_mode]]
      [] OTHER -> a

\* handle_key_events taking Down for Enter
handle_key_events_down_enters(a, kind, code) ==
    IF kind # "Press" THEN a
    ELSE key_pressed(reset_mouse_used(a), IF code = "Down" THEN "Enter" ELSE code)

handle_key_events(a, kind, code) ==
    IF kind # "Press" THEN a ELSE key_pressed(reset_mouse_used(a), code)

(***************************************************************************)
(* Mouse events (src/handler.rs).  The frame is drawn before every event   *)
(* (src/main.rs), so top_x, top_y, width and height are those of the       *)
(* promotion popup while game_state is Promotion and of the board          *)
(* otherwise.                                                              *)
(***************************************************************************)
BOARD_TOP_X == 20

BOARD_TOP_Y == 4

CELL_WIDTH == 6

CELL_HEIGHT == 3

POPUP_TOP_X == 30

POPUP_TOP_Y == 30

POPUP_WIDTH == 10

POPUP_HEIGHT == 6

Layout(a) ==
    IF a.game.game_state = "Promotion"
    THEN [top_x |-> POPUP_TOP_X, top_y |-> POPUP_TOP_Y, width |-> POPUP_WIDTH, height |-> POPUP_HEIGHT]
    ELSE [top_x |-> BOARD_TOP_X, top_y |-> BOARD_TOP_Y, width |-> CELL_WIDTH, height |-> CELL_HEIGHT]

\* u16 subtraction without overflow checks
WrappingSub(x, y) == (x - y + 65536) % 65536

\* The promotion branch (lines 174-182) for popup cell (x, y); `returned`
\* tells that the handler returned, or panicked, inside the branch
mouse_promotion(a, x, y, overflowed) ==
    IF a.game.game_state # "Promotion" THEN [app |-> a, returned |-> FALSE]
    ELSE IF overflowed THEN [app |-> [a EXCEPT !.game.panicked = TRUE], returned |-> TRUE]
    ELSE IF x > 3 \/ y > 0 THEN [app |-> a, returned |-> TRUE]
    ELSE [app |-> [a EXCEPT !.game = promote_piece([@ EXCEPT !.ui.promotion_cursor = x])],
          returned |-> FALSE]

\* mouse_click moving the selected piece to any clicked cell
mouse_click_any_target(a, coords) ==
    IF get_piece_color(a.game.game_board, a.game.ui.selected_coordinates) # "None"
    THEN [a EXCEPT !.game = handle_cell_click([@ EXCEPT !.ui.cursor_coordinates = coords])]
    ELSE [a EXCEPT !.game.ui.selected_coordinates = coords]

\* The click on cell coords (lines 191-214), mouse_used being set
mouse_click(a, coords) ==
    IF /\ coords \in SelectedPositions(a)
       /\ get_piece_color(a.game.game_board, a.game.ui.selected_coordinates) # "None"
    THEN [a EXCEPT !.game = handle_cell_click([@ EXCEPT !.ui.cursor_coordinates = coords])]
    ELSE [a EXCEPT !.game.ui.selected_coordinates = coords]

\* mouse_selection without the test that the click fell on one of the 8x8 cells
mouse_selection_off_board(branch, ui, column, row) ==
    IF branch.returned \/ branch.app.game.panicked THEN branch.app
    ELSE IF column < ui.top_x \/ row < ui.top_y THEN branch.app
    ELSE mouse_click([branch.app EXCEPT !.game.ui.mouse_used = TRUE],
                     Coord((row - ui.top_y) \div ui.height, (column - ui.top_x) \div ui.width))

\* The part of the handler after the promotion branch (lines 183-214)
mouse_selection(branch, ui, column, row) ==
    IF branch.returned \/ branch.app.game.panicked THEN branch.app
    ELSE IF column < ui.top_x \/ row < ui.top_y THEN branch.app
    ELSE IF (column - ui.top_x) \div ui.width > 7 \/ (row - ui.top_y) \div ui.height > 7
    THEN branch.app
    ELSE mouse_click([branch.app EXCEPT !.game.ui.mouse_used = TRUE],
                     Coord((row - ui.top_y) \div ui.height, (column - ui.top_x) \div ui.width))

\* The handler once the page, the button, the game state and the popup let
\* the click through; ui holds top_x, top_y, width and height
mouse_down(a, ui, column, row, overflow_checks) ==
    mouse_selection(
        mouse_promotion(a, WrappingSub(column, ui.top_x) \div ui.width,
                        WrappingSub(row, ui.top_y) \div ui.height,
                        overflow_checks /\ (column < ui.top_x \/ row < ui.top_y)),
        ui, column, row)

\* overflow_checks: whether the build panics on integer overflow (debug) or wraps (release)
handle_mouse_events(a, kind, column, row, overflow_checks) ==
    IF a.current_page = "Home" \/ a.current_page = "Credit" THEN a
    ELSE IF kind # "DownLeft" THEN a
    ELSE IF Terminal(a) THEN a
    ELSE IF a.current_popup # "None" THEN a
    ELSE mouse_down(a, Layout(a), column, row, overflow_checks)

(***************************************************************************)
(* Bounds and inputs                                                       *)
(***************************************************************************)
\* Plies applied in one behaviour, beyond the opening that was played out
MaxPlies == 1

\* Board cells the mouse is clicked on
ClickCells ==
    {Coord(0, 2), Coord(0, 6), Coord(0, 7), Coord(1, 6), Coord(2, 4), Coord(2, 6),
     Coord(3, 0), Coord(3, 7), Coord(7, 3), Coord(7, 4), Coord(7, 7)}

\* Terminal position of the mouse for a click in the middle of a board cell
CellPoint(c) ==
    <<BOARD_TOP_X + c.col * CELL_WIDTH + 1, BOARD_TOP_Y + c.row * CELL_HEIGHT + 1>>

\* The four icons of the promotion popup, and a point right of them
PopupPoints == {<<POPUP_TOP_X + k * POPUP_WIDTH, POPUP_TOP_Y>> : k \in 0..4}

MousePoints == {CellPoint(c) : c \in ClickCells} \cup PopupPoints

\* Openings, as plies <<file, rank, file, rank>> (files a..h = 1..8), White first.
\* 1.h4 g5 2.hxg5 Bg7 3.g6 Be5 4.a3 Bd6 5.g7 Nf6 6.a4 Nd5: the g-pawn promotes next
PromotionLine ==
    << <<8,2,8,4>>, <<7,7,7,5>>, <<8,4,7,5>>, <<6,8,7,7>>, <<7,5,7,6>>, <<7,7,5,5>>,
       <<1,2,1,3>>, <<5,5,4,6>>, <<7,6,7,7>>, <<7,8,6,6>>, <<1,3,1,4>>, <<6,6,4,5>> >>

\* 1.e4 a6 2.Nf3 a5 3.Bc4 a4: White may castle short
CastlingLine ==
    << <<5,2,5,4>>, <<1,7,1,6>>, <<7,1,6,3>>, <<1,6,1,5>>, <<6,1,3,4>>, <<1,5,1,4>> >>

\* ... 4.b4: Black may capture en passant
EnPassantLine == Append(CastlingLine, <<2,2,2,4>>)

\* 1.f3 e5 2.g4: Black mates with Qh4
FoolsMateLine == << <<6,2,6,3>>, <<5,7,5,5>>, <<7,2,7,4>> >>

\* 1.e3 a5 2.Qh5 Ra6 3.Qxa5 h5 4.h4 Rah6 5.Qxc7 f6 6.Qxd7+ Kf7 7.Qxb7 Qd3
\* 8.Qxb8 Qh7 9.Qxc8 Kg6: White stalemates with Qe6
StalemateLine ==
    << <<5,2,5,3>>, <<1,7,1,5>>, <<4,1,8,5>>, <<1,8,1,6>>, <<8,5,1,5>>, <<8,7,8,5>>,
       <<8,2,8,4>>, <<1,6,8,6>>, <<1,5,3,7>>, <<6,7,6,6>>, <<3,7,4,7>>, <<5,8,6,7>>,
       <<4,7,2,7>>, <<4,8,4,3>>, <<2,7,2,8>>, <<4,3,8,7>>, <<2,8,3,8>>, <<6,7,7,6>> >>

\* Nf3 Nc6 Ng1 Nb8: four plies that restore the position
KnightCycle == << <<7,1,6,3>>, <<2,8,3,6>>, <<6,3,7,1>>, <<3,6,2,8>> >>

RECURSIVE Repeated(_, _)
Repeated(line, n) == IF n = 0 THEN <<>> ELSE line \o Repeated(line, n - 1)

\* 1.e4 e6, twelve knight cycles, then Nf3 Qh4: FIFTY_MOVE_THRESHOLD plies
\* without a pawn move or a capture, the game is drawn
FiftyMoveLine ==
    << <<5,2,5,4>>, <<5,7,5,6>> >> \o Repeated(KnightCycle, 12)
        \o << <<7,1,6,3>>, <<4,8,8,4>> >>

\* Nc3 Nc6 Nb1 Nb8: four plies that restore the position
QueenKnightCycle == << <<2,1,3,3>>, <<2,8,3,6>>, <<3,3,2,1>>, <<3,6,2,8>> >>

\* 1.Nf3 e6 2.e4 Nc6 3.Be2 Nb8, eleven knight cycles, then Nc3 Nc6: one ply
\* short of FIFTY_MOVE_THRESHOLD since 2.e4, and White may castle short
CastlingFiftyLine ==
    << <<7,1,6,3>>, <<5,7,5,6>>, <<5,2,5,4>>, <<2,8,3,6>>, <<6,1,5,2>>, <<3,6,2,8>> >>
        \o Repeated(QueenKnightCycle, 11) \o << <<2,1,3,3>>, <<2,8,3,6>> >>

\* 1.a3 d5 2.a4 Nc6 3.a5 Bf5 4.a6 Qd6 5.h3: Black may castle long
LongCastlingLine ==
    << <<1,2,1,3>>, <<4,7,4,5>>, <<1,3,1,4>>, <<2,8,3,6>>, <<1,4,1,5>>, <<3,8,6,5>>,
       <<1,5,1,6>>, <<4,8,4,6>>, <<8,2,8,3>> >>

Openings ==
    << <<>>, PromotionLine, CastlingLine, EnPassantLine, FoolsMateLine, StalemateLine,
       FiftyMoveLine, CastlingFiftyLine, LongCastlingLine >>

\* The cell of square (file, rank) as displayed to the mover of ply number i
Square(file, rank, i) ==
    IF i % 2 = 1 THEN Coord(8 - rank, file - 1) ELSE Coord(rank - 1, 8 - file)

\* The cell of the n-th click of an opening: origin, then destination, of each ply
ClickOf(opening, n) ==
    Square(opening[(n + 1) \div 2][IF n % 2 = 1 THEN 1 ELSE 3],
           opening[(n + 1) \div 2][IF n % 2 = 1 THEN 2 ELSE 4],
           (n + 1) \div 2)

Click(a, c) == handle_mouse_events(a, "DownLeft", CellPoint(c)[1], CellPoint(c)[2], TRUE)

\* The application after the clicks n.. of an opening
RECURSIVE Played(_, _, _)
Played(a, opening, n) ==
    IF n > 2 * Len(opening) \/ ~a.running THEN a
    ELSE Played(Click(a, ClickOf(opening, n)), opening, n + 1)

AppStarted(opening) ==
    IF opening = <<>> THEN AppDefault
    ELSE Played([AppDefault EXCEPT !.current_page = "Solo"], opening, 1)

(***************************************************************************)
(* The event loop (src/main.rs): one action per input event                *)
(***************************************************************************)
HistoryLen(a) == Len(a.game.game_board.move_history)

Alive == app.running /\ ~app.game.panicked

\* The handler leaves the application in state `next`
Handled(next) ==
    /\ app' = next
    /\ plies' = plies + (IF HistoryLen(next) > HistoryLen(app) THEN 1 ELSE 0)
    /\ plies' <= MaxPlies

KeyEnter == Alive /\ Handled(handle_key_events(app, "Press", "Enter"))

KeyEsc == Alive /\ Handled(handle_key_events(app, "Press", "Esc"))

KeyRestart == Alive /\ Handled(handle_key_events(app, "Press", "r"))

\* A left click on one of `points`
Clicked(points) ==
    \E point \in points, overflow_checks \in BOOLEAN :
        Handled(handle_mouse_events(app, "DownLeft", point[1], point[2], overflow_checks))

MouseDown == Alive /\ Clicked(MousePoints)

Init ==
    /\ \E k \in 1..Len(Openings) : app = AppStarted(Openings[k])
    /\ plies = 0

Next ==
    \/ KeyEnter
    \/ KeyEsc
    \/ KeyRestart
    \/ MouseDown

Spec == Init /\ [][Next]_vars

(***************************************************************************)
(* The event loop with the cursor keys as well, started from the lines     *)
(* that end, or are about to end, the game                                 *)
(***************************************************************************)
KeyUp == Alive /\ Handled(handle_key_events(app, "Press", "Up"))

KeyDown == Alive /\ Handled(handle_key_events(app, "Press", "Down"))

KeyLeft == Alive /\ Handled(handle_key_events(app, "Press", "Left"))

KeyRight == Alive /\ Handled(handle_key_events(app, "Press", "Right"))

KeyOpenings == <<FoolsMateLine, FiftyMoveLine>>

\* The clicks that play Qd8-h4 in FoolsMateLine, and a click off the board
MatePoints == {CellPoint(Coord(7, 4)), CellPoint(Coord(3, 0)), <<0, 0>>}

MouseDownMate == Alive /\ Clicked(MatePoints)

InitKeys ==
    /\ \E k \in 1..Len(KeyOpenings) : app = AppStarted(KeyOpenings[k])
    /\ plies = 0

NextKeys ==
    \/ KeyEnter
    \/ KeyUp
    \/ KeyDown
    \/ KeyLeft
    \/ KeyRight
    \/ KeyRestart
    \/ MouseDownMate

SpecKeys == InitKeys /\ [][NextKeys]_vars

(***************************************************************************)
(* The same loop with direct callers of the public Game methods: a caller  *)
(* that hands a move intent to execute_move, and one that sets the         *)
(* selection and the cursor and calls already_selected_cell_action.        *)
(***************************************************************************)
\* Coordinates direct callers pass: occupied and empty cells, and one off the grid
ApiCoords == {Coord(6, 4), Coord(4, 4), Coord(3, 4), Coord(8, 4)}

Selecting(g, from, to) ==
    [g EXCEPT !.ui.selected_coordinates = from, !.ui.cursor_coordinates = to]

ExecuteMove ==
    /\ Alive
    /\ \E from \in ApiCoords, to \in ApiCoords :
          Handled([app EXCEPT !.game = execute_move(@, from, to)])

CellAction ==
    /\ Alive
    /\ \E from \in ApiCoords, to \in ApiCoords :
          Handled([app EXCEPT !.game = already_selected_cell_action(Selecting(@, from, to))])

\* Selectors a direct caller leaves in ui.promotion_cursor (an i8) before promote_piece
ApiSelectors == {-1, 0, 3, 4}

WithSelector(g, selector) == [g EXCEPT !.ui.promotion_cursor = selector]

PromotePiece ==
    /\ Alive
    /\ \E selector \in ApiSelectors :
          Handled([app EXCEPT !.game = promote_piece(WithSelector(@, selector))])

InitApi == app = AppDefault /\ plies = 0

NextApi ==
    \/ ExecuteMove
    \/ CellAction
    \/ PromotePiece
    \/ KeyRestart

SpecApi == InitApi /\ [][NextApi]_vars

(***************************************************************************)
(* The event loop around an en-passant capture: a pawn has just advanced   *)
(* two squares beside an enemy pawn, and the players click on the          *)
(* capturing pawn, on the square behind the passed pawn and on a rook's    *)
(* pawn and the square ahead of it.                                        *)
(***************************************************************************)
\* Plies applied in one behaviour after the two-square advance
MaxPassantPlies == 2

\* 1.h4 a6 2.h5 g5: White may capture en passant
WhiteEnPassantLine == << <<8,2,8,4>>, <<1,7,1,6>>, <<8,4,8,5>>, <<7,7,7,5>> >>

PassantOpenings == <<EnPassantLine, WhiteEnPassantLine>>

PassantPoints ==
    {CellPoint(c) : c \in {Coord(3, 7), Coord(2, 6), Coord(6, 0), Coord(5, 0)}}

\* The handler leaves the application in state `next`, within `bound` plies
HandledWithin(next, bound) ==
    /\ app' = next
    /\ plies' = plies + (IF HistoryLen(next) > HistoryLen(app) THEN 1 ELSE 0)
    /\ plies' <= bound

MouseDownPassant ==
    /\ Alive
    /\ \E point \in PassantPoints :
          HandledWithin(handle_mouse_events(app, "DownLeft", point[1], point[2], TRUE),
                        MaxPassantPlies)

KeyEnterPassant ==
    Alive /\ HandledWithin(handle_key_events(app, "Press", "Enter"), MaxPassantPlies)

InitPassant ==
    /\ \E k \in 1..Len(PassantOpenings) : app = AppStarted(PassantOpenings[k])
    /\ plies = 0

NextPassant ==
    \/ MouseDownPassant
    \/ KeyEnterPassant

SpecPassant == InitPassant /\ [][NextPassant]_vars

(***************************************************************************)
(* The event loop with a rendering collaborator that calls the public      *)
(* flip_the_board between two events (spec 4.2: flip_orientation is        *)
(* exposed to the renderer), around an en-passant capture: the clicks are  *)
(* those of SpecPassant and the same squares on the rotated board.         *)
(***************************************************************************)
FlipPoints ==
    PassantPoints \cup {CellPoint(FlipCoord(c)) : c \in {Coord(3, 7), Coord(2, 6)}}

FlipTheBoard ==
    Alive /\ Handled([app EXCEPT !.game.game_board = flip_the_board(@)])

MouseDownFlip == Alive /\ Clicked(FlipPoints)

NextFlip ==
    \/ FlipTheBoard
    \/ MouseDownFlip

SpecFlip == InitPassant /\ [][NextFlip]_vars

(***************************************************************************)
(* The event loop around a restart: the game is about to enter Promotion,  *)
(* Checkmate or Draw, the help popup is opened and closed, and the game is *)
(* restarted.                                                              *)
(***************************************************************************)
KeyHelp == Alive /\ Handled(handle_key_events(app, "Press", "?"))

RestartOpenings == <<PromotionLine, FoolsMateLine, StalemateLine>>

\* The clicks that play gxh8 in PromotionLine, Qd8-h4 in FoolsMateLine and
\* Qc8-e6 in StalemateLine, and the icons of the promotion popup
RestartPoints ==
    {CellPoint(c) : c \in {Coord(1, 6), Coord(0, 7), Coord(7, 4), Coord(3, 0), Coord(0, 2),
                           Coord(2, 4)}} \cup PopupPoints

MouseDownRestart == Alive /\ Clicked(RestartPoints)

InitRestart ==
    /\ \E k \in 1..Len(RestartOpenings) : app = AppStarted(RestartOpenings[k])
    /\ plies = 0

NextRestart ==
    \/ MouseDownRestart
    \/ KeyHelp
    \/ KeyRestart

SpecRestart == InitRestart /\ [][NextRestart]_vars

(***************************************************************************)
(* The event loop around a check and a pin: a bishop checks the black      *)
(* king, or is about to pin a white knight; the lines with a castling move *)
(* and an en-passant capture at hand are played from as well.              *)
(***************************************************************************)
\* Plies applied in one behaviour after the opening
MaxCheckPlies == 1

\* 1.e4 d5 2.Bb5+: Black is in check and may block with Nc6
CheckLine == << <<5,2,5,4>>, <<4,7,4,5>>, <<6,1,2,5>> >>

\* 1.d4 e6 2.Nc3: Bb4 pins the knight
PinLine == << <<4,2,4,4>>, <<5,7,5,6>>, <<2,1,3,3>> >>

CheckOpenings == <<CheckLine, PinLine, CastlingLine, LongCastlingLine, EnPassantLine>>

\* The cells of Nb8-c6 and Bf8-b4, of the castling moves and of the en-passant capture
CheckPoints ==
    {CellPoint(c) : c \in {Coord(7, 6), Coord(5, 5), Coord(7, 2), Coord(3, 6), Coord(7, 4),
                           Coord(7, 3), Coord(7, 7), Coord(3, 7), Coord(2, 6)}}

MouseDownCheck ==
    /\ Alive
    /\ \E point \in CheckPoints :
          HandledWithin(handle_mouse_events(app, "DownLeft", point[1], point[2], TRUE),
                        MaxCheckPlies)

KeyEscCheck ==
    Alive /\ HandledWithin(handle_key_events(app, "Press", "Esc"), MaxCheckPlies)

InitCheck ==
    /\ \E k \in 1..Len(CheckOpenings) : app = AppStarted(CheckOpenings[k])
    /\ plies = 0

NextCheck ==
    \/ MouseDownCheck
    \/ KeyEscCheck

SpecCheck == InitCheck /\ [][NextCheck]_vars

(***************************************************************************)
(* The event loop of Spec started with a promotion pending: a white pawn    *)
(* has just taken the rook on h8 and no piece kind has been chosen yet.     *)
(***************************************************************************)
\* 1.h4 g5 2.hxg5 Nf6 3.g6 Ne4 4.g7 a6 5.gxh8: a black knight stands on e4
KnightPromotionLine ==
    << <<8,2,8,4>>, <<7,7,7,5>>, <<8,4,7,5>>, <<7,8,6,6>>, <<7,5,7,6>>, <<6,6,5,4>>,
       <<7,6,7,7>>, <<1,7,1,6>>, <<7,7,8,8>> >>

PromotionOpenings == <<KnightPromotionLine, Append(PromotionLine, <<7,7,8,8>>)>>

InitPromotion ==
    /\ \E k \in 1..Len(PromotionOpenings) : app = AppStarted(PromotionOpenings[k])
    /\ plies = 0

SpecPromotion == InitPromotion /\ [][Next]_vars

(***************************************************************************)
(* The event loop of SpecKeys started in each game state: a promotion is    *)
(* pending, the fool's mate has been played, or the game is drawn; a        *)
(* restart leads to a game in play.                                         *)
(***************************************************************************)
CursorOpenings ==
    <<KnightPromotionLine, Append(FoolsMateLine, <<4,8,8,4>>),
      Append(StalemateLine, <<3,8,5,6>>)>>

InitCursor ==
    /\ \E k \in 1..Len(CursorOpenings) : app = AppStarted(CursorOpenings[k])
    /\ plies = 0

SpecCursor == InitCursor /\ [][NextKeys]_vars

(***************************************************************************)

(* Properties                                                              *)
(***************************************************************************)
GB == app.game.game_board


\* The grid before the last ply, in the orientation the last ply was played in
BoardBeforeLast(gb) ==
    LET n == Len(gb.move_history)
        before == gb.board_history[n]
    IN  IF n = 1 THEN before
        ELSE [i \in 1..8 |-> [j \in 1..8 |-> before[9 - i][9 - j]]]

\* The last ply moved a pawn whose promotion choice has been applied
PromotionApplied(gb) ==
    /\ Len(gb.move_history) > 0
    /\ Len(gb.board_history) > Len(gb.move_history)
    /\ At(BoardBeforeLast(gb), LastMove(gb).from) = <<"Pawn", LastMove(gb).piece_color>>
    /\ LastMove(gb).piece_type # "Pawn"

\* The last ply was a castling move
CastlingApplied(gb) ==
    /\ Len(gb.move_history) > 0
    /\ LastMove(gb).piece_type = "King"
    /\ Abs(LastMove(gb).from.col - LastMove(gb).to.col) > 1

\* C3: in every reachable state board_history holds one snapshot more than
\* move_history holds plies.
C3_HistoryLengths == Len(GB.board_history) = Len(GB.move_history) + 1

C3_Witness == plies > 0 /\ PromotionApplied(GB)

KingCount(board, color) == Cardinality(KingSquares(board, color))

\* C4: in every state reachable by input events the board holds exactly one
\* White king and exactly one Black king.
C4_OneKingEach == KingCount(GB.board, "White") = 1 /\ KingCount(GB.board, "Black") = 1

C4_Witness == plies > 0 /\ CastlingApplied(GB)

\* The parts of the game a rejected intent must leave alone
RulesState(g) ==
    <<g.game_board.board, g.game_board.move_history, g.game_board.board_history,
      g.game_board.consecutive_non_pawn_or_capture, g.player_turn, g.game_state>>

\* C1: a move intent (from, to) with valid coordinates whose `to` is not an
\* authorized position of `from` for the side to move, handed to execute_move,
\* leaves board, histories, halfmove counter, player_turn and game_state unchanged.
C1_IllegalIntentRejected ==
    [][\A from \in ApiCoords, to \in ApiCoords :
          ( /\ is_valid(from) /\ is_valid(to)
            /\ to \notin get_authorized_positions(GB, app.game.player_turn, from)
            /\ app'.game = execute_move(app.game, from, to) )
          => RulesState(app'.game) = RulesState(app.game)]_vars

\* C2: when execute_move returns without applying a move (invalid coordinate, or
\* no piece on `from`), the enclosing already_selected_cell_action leaves
\* player_turn unchanged, does not flip the board and appends to no history.
C2_RejectedIntentKeepsTurn ==
    [][\A from \in ApiCoords, to \in ApiCoords :
          ( /\ is_valid(to)
            /\ (~is_valid(from) \/ get_piece_type(GB, from) = "None")
            /\ app'.game = already_selected_cell_action(Selecting(app.game, from, to)) )
          => /\ app'.game.player_turn = app.game.player_turn
             /\ app'.game.game_board = app.game.game_board]_vars

\* The parts of the game a finished game keeps
EndState(g) ==
    <<g.game_state, g.game_board.board, g.game_board.move_history,
      g.game_board.board_history, g.player_turn>>

\* C5: once game_state is Checkmate or Draw, no cell click, cursor key, mouse
\* click or promotion input changes game_state, the board, the histories or
\* player_turn; only a restart, which installs the default game, does.
C5_TerminalAbsorbing ==
    [][Terminal(app) => (EndState(app'.game) = EndState(app.game) \/ app'.game = GameDefault)]_vars

C5_Witness == app.game.game_state = "Checkmate" /\ app.menu_cursor = 1

\* What terminal-state detection yields for the side to move
Detected(g) ==
    IF is_checkmate(g.game_board, g.player_turn) THEN "Checkmate"
    ELSE IF is_draw(g.game_board, g.player_turn) THEN "Draw"
    ELSE "Playing"

\* The step applies a promotion choice: the last ply stops being a pawn's
ChoiceApplied ==
    /\ app.game.game_state = "Promotion"
    /\ HistoryLen(app) > 0
    /\ HistoryLen(app') = HistoryLen(app)
    /\ LastMove(app.game.game_board).piece_type = "Pawn"
    /\ LastMove(app'.game.game_board).piece_type # "Pawn"

\* C6: right after the input event that applies a promotion choice, by keyboard
\* or by mouse, game_state is Checkmate if the side to move is checkmated, Draw
\* if the position is drawn, and Playing only otherwise.
C6_PromotionRechecksTerminal ==
    [][ChoiceApplied => app'.game.game_state = Detected(app'.game)]_vars

\* The step applies a ply
PlyApplied == HistoryLen(app') = HistoryLen(app) + 1

\* The latest ply moved a pawn onto the back rank and no choice was applied yet
UnresolvedPromotion(gb) ==
    /\ Len(gb.move_history) > 0
    /\ LastMove(gb).piece_type = "Pawn"
    /\ LastMove(gb).to.row = 0

\* C7: after every applied ply game_state is Checkmate if the new side to move
\* is checkmated, else Draw if the position is drawn, else Promotion if the
\* latest move is an unresolved promotion, else Playing.
C7_StateAfterPly ==
    [][PlyApplied =>
          app'.game.game_state =
              IF Detected(app'.game) # "Playing" THEN Detected(app'.game)
              ELSE IF UnresolvedPromotion(app'.game.game_board) THEN "Promotion"
              ELSE "Playing"]_vars

\* A ply has led to stalemate: no legal move, no check, the counter below the threshold
C7_Witness ==
    /\ plies > 0
    /\ app.game.game_state = "Draw"
    /\ GB.consecutive_non_pawn_or_capture < FIFTY_MOVE_THRESHOLD
    /\ ~is_in_check(GB, app.game.player_turn)

\* The last ply is a pawn's, and that pawn stands on its destination on the back rank
PawnAwaitsPromotion(gb) ==
    /\ UnresolvedPromotion(gb)
    /\ At(gb.board, LastMove(gb).to) = <<"Pawn", LastMove(gb).piece_color>>

\* C8: Promotion is entered only from Playing and only by a ply that moves a
\* pawn onto the back rank; from then on, while game_state stays Promotion, the
\* last move_history entry is that pawn's ply and the pawn stands on its
\* destination square.
C8_PromotionEntry ==
    [][/\ (app.game.game_state # "Promotion" /\ app'.game.game_state = "Promotion")
            => /\ app.game.game_state = "Playing"
               /\ PlyApplied
               /\ PawnAwaitsPromotion(app'.game.game_board)
       /\ (app.game.game_state = "Promotion" /\ app'.game.game_state = "Promotion")
            => /\ PawnAwaitsPromotion(app'.game.game_board)
               /\ app'.game.game_board.move_history = app.game.game_board.move_history]_vars

\* A ply has entered Promotion and a later click, beside the icons, left it pending
C8_Witness ==
    /\ plies > 0
    /\ app.game.game_state = "Promotion"
    /\ PawnAwaitsPromotion(GB)
    /\ app.game.ui.selected_coordinates = undefined
    /\ app.game.ui.mouse_used

\* The kinds a promotion selector stands for
ChosenKind(s) == <<"Queen", "Rook", "Bishop", "Knight">>[s + 1]

\* Board gb with the pawn of the last ply replaced by a piece of kind `kind`
PromotedBoard(gb, kind) ==
    SetCell(gb.board, LastMove(gb).to.row, LastMove(gb).to.col,
            <<kind, LastMove(gb).piece_color>>)

\* Histories `after` are histories `before` with the last ply's kind rewritten
\* and the last snapshot replaced, nothing added, nothing else changed
ChoiceRewritesLast(before, after, kind) ==
    /\ Len(after.move_history) = Len(before.move_history)
    /\ Len(after.board_history) = Len(before.board_history)
    /\ after.move_history =
           [before.move_history EXCEPT ![Len(before.move_history)].piece_type = kind]
    /\ after.board_history =
           [before.board_history EXCEPT ![Len(before.board_history)] = PromotedBoard(before, kind)]

\* C9: promote_piece leaves the lengths of move_history and board_history
\* unchanged, sets the last ply's piece_type to the chosen kind (0 Queen, 1 Rook,
\* 2 Bishop, 3 Knight) and replaces the last snapshot by the board with the
\* promoted piece in place, for every selector in every Promotion state and in
\* every step that applies a choice.
C9_PromotionRewritesLastPly ==
    /\ [](app.game.game_state = "Promotion" =>
            \A s \in 0..3 :
                ChoiceRewritesLast(GB,
                    promote_piece([app.game EXCEPT !.ui.promotion_cursor = s]).game_board,
                    ChosenKind(s)))
    /\ [][ChoiceApplied =>
            \E s \in 0..3 :
                ChoiceRewritesLast(GB, app'.game.game_board, ChosenKind(s))]_vars

C9_Witness == plies > 0 /\ PromotionApplied(GB) /\ LastMove(GB).piece_type = "Knight"

\* Ply m, played on board gb, takes an enemy piece
Captures(gb, m) ==
    \/ get_piece_color(gb, m.to) = Opposite(m.piece_color)
    \/ EnPassantEligible(gb, m.from, m.to)

\* C10: after every applied ply the halfmove counter is 0 if the ply moved a
\* pawn or captured an enemy piece, and its previous value plus 1 otherwise
\* (castling increments it, an en-passant capture resets it).
C10_HalfmoveCounter ==
    [][PlyApplied =>
          app'.game.game_board.consecutive_non_pawn_or_capture =
              IF \/ LastMove(app'.game.game_board).piece_type = "Pawn"
                 \/ Captures(GB, LastMove(app'.game.game_board))
              THEN 0
              ELSE GB.consecutive_non_pawn_or_capture + 1]_vars

\* The grid before ply i, in the orientation ply i was played in
BoardBeforePly(gb, i) ==
    IF i = 1 THEN gb.board_history[1]
    ELSE [r \in 1..8 |-> [c \in 1..8 |-> gb.board_history[i][9 - r][9 - c]]]

PieceCount(board) == Cardinality({c \in AllCoords : At(board, c) # NoPiece})

\* Ply i moved no pawn and captured nothing
QuietPly(gb, i) ==
    /\ At(BoardBeforePly(gb, i), gb.move_history[i].from) # NoPiece
    /\ At(BoardBeforePly(gb, i), gb.move_history[i].from)[1] # "Pawn"
    /\ PieceCount(gb.board_history[i + 1]) = PieceCount(gb.board_history[i])

\* The last n plies moved no pawn and captured nothing
LastQuiet(gb, n) ==
    /\ Len(gb.move_history) >= n
    /\ \A i \in (Len(gb.move_history) - n + 1)..Len(gb.move_history) : QuietPly(gb, i)

\* C11: a ply that completes FIFTY_MOVE_THRESHOLD consecutive plies without a
\* pawn move or a capture makes is_draw hold for the side to move and
\* game_state Draw (Checkmate if that side is checkmated); with fewer such
\* plies since the last pawn move or capture the counter is below the threshold.
C11_FiftyMoveDraw ==
    [][PlyApplied =>
          IF LastQuiet(app'.game.game_board, FIFTY_MOVE_THRESHOLD)
          THEN /\ is_draw(app'.game.game_board, app'.game.player_turn)
               /\ app'.game.game_state \in {"Draw", "Checkmate"}
          ELSE app'.game.game_board.consecutive_non_pawn_or_capture
                   < FIFTY_MOVE_THRESHOLD]_vars

\* The step applies a castling ply: the king of the side to move leaves `from`
\* for a square more than one column away
CastlingPly ==
    /\ PlyApplied
    /\ At(GB.board, LastMove(app'.game.game_board).from) = <<"King", app.game.player_turn>>
    /\ Abs(LastMove(app'.game.game_board).from.col - LastMove(app'.game.game_board).to.col) > 1

\* Grid `after` is grid `before` with the king of `color` gone from `from` to the
\* square two columns away in direction dir, the rook gone from `rook` to the
\* square next to the king on the side of `from`, and every other square as it was
CastledBoard(before, after, from, rook, color, dir) ==
    \A c \in AllCoords :
        At(after, c) =
            IF c = Coord(from.row, from.col + 2 * dir) THEN <<"King", color>>
            ELSE IF c = Coord(from.row, from.col + dir) THEN <<"Rook", color>>
            ELSE IF c = from \/ c = rook THEN NoPiece
            ELSE At(before, c)

\* C12: a castling ply puts the king two columns from its origin in the
\* castling direction and the rook on the square next to it, empties the
\* origin squares of both, changes no other square, and appends exactly one
\* move_history entry and one board_history snapshot.
C12_CastlingAtomic ==
    [][CastlingPly =>
          /\ At(GB.board, LastMove(app'.game.game_board).to) = <<"Rook", app.game.player_turn>>
          /\ CastledBoard(GB.board,
                 app'.game.game_board.board_history[Len(app'.game.game_board.board_history)],
                 LastMove(app'.game.game_board).from, LastMove(app'.game.game_board).to,
                 app.game.player_turn,
                 Sign(LastMove(app'.game.game_board).to.col
                        - LastMove(app'.game.game_board).from.col))
          /\ app'.game.game_board.board_history[Len(app'.game.game_board.board_history)]
                 = flip_the_board(app'.game.game_board).board
          /\ Len(app'.game.game_board.move_history) = Len(GB.move_history) + 1
          /\ Len(app'.game.game_board.board_history) = Len(GB.board_history) + 1
          /\ SubSeq(app'.game.game_board.board_history, 1, Len(GB.board_history))
                 = GB.board_history]_vars

\* Black has castled long: its king went three columns towards the far rook's side
C12_Witness ==
    /\ plies > 0
    /\ CastlingApplied(GB)
    /\ LastMove(GB).piece_color = "Black"
    /\ LastMove(GB).to.col > LastMove(GB).from.col + 3

\* The step applies an en-passant capture: a pawn of the side to move goes
\* diagonally onto an empty square
EnPassantPly ==
    /\ PlyApplied
    /\ At(GB.board, LastMove(app'.game.game_board).from) = <<"Pawn", app.game.player_turn>>
    /\ LastMove(app'.game.game_board).from.col # LastMove(app'.game.game_board).to.col
    /\ At(GB.board, LastMove(app'.game.game_board).to) = NoPiece

\* Grid `after` is grid `before` with the pawn of `color` gone from `from` to
\* `to`, the square `victim` emptied, and every other square as it was
EnPassantBoard(before, after, from, to, victim, color) ==
    \A c \in AllCoords :
        At(after, c) =
            IF c = to THEN <<"Pawn", color>>
            ELSE IF c = from \/ c = victim THEN NoPiece
            ELSE At(before, c)

\* C13: an en-passant capture removes the enemy pawn that stands one rank
\* behind the destination in the mover's direction of travel, in the
\* destination's column; the capturing pawn ends on the destination, its
\* origin is empty and no other square changes, for either color.
C13_EnPassantCapture ==
    [][EnPassantPly =>
          /\ At(GB.board, Coord(LastMove(app'.game.game_board).to.row
                                    - Forward(GB, app.game.player_turn),
                                LastMove(app'.game.game_board).to.col))
                 = <<"Pawn", Opposite(app.game.player_turn)>>
          /\ EnPassantBoard(GB.board,
                 app'.game.game_board.board_history[Len(app'.game.game_board.board_history)],
                 LastMove(app'.game.game_board).from, LastMove(app'.game.game_board).to,
                 Coord(LastMove(app'.game.game_board).to.row
                           - Forward(GB, app.game.player_turn),
                       LastMove(app'.game.game_board).to.col),
                 app.game.player_turn)
          /\ app'.game.game_board.board
                 = flip_the_board([GB EXCEPT !.board =
                       app'.game.game_board.board_history[
                           Len(app'.game.game_board.board_history)]]).board]_vars

\* White has captured en passant
C13_Witness ==
    /\ plies > 0
    /\ LastMove(GB).piece_color = "White"
    /\ LastMove(GB).piece_type = "Pawn"
    /\ LastMove(GB).from.col # LastMove(GB).to.col
    /\ PieceCount(GB.board) = 31
    /\ Len(GB.taken_pieces) = 1

\* The grid before the last ply, in the orientation of the side now to move
BoardBeforeLastAsNow(gb) ==
    IF Len(gb.move_history) = 1
    THEN [r \in 1..8 |-> [c \in 1..8 |-> gb.board_history[1][9 - r][9 - c]]]
    ELSE gb.board_history[Len(gb.move_history)]

\* The last ply advanced the enemy pawn that stands on `victim` by two squares,
\* as the snapshots show it (dir is the direction the side to move advances in)
JustAdvancedTwo(gb, turn, victim, dir) ==
    /\ Len(gb.move_history) > 0
    /\ victim.row + 2 * dir \in 0..7
    /\ At(gb.board, victim) = <<"Pawn", Opposite(turn)>>
    /\ At(gb.board, Coord(victim.row + 2 * dir, victim.col)) = NoPiece
    /\ At(BoardBeforeLastAsNow(gb), victim) = NoPiece
    /\ At(BoardBeforeLastAsNow(gb), Coord(victim.row + 2 * dir, victim.col))
           = <<"Pawn", Opposite(turn)>>

\* Capturing en passant from `from` to `to` does not leave the mover in check
EnPassantSafe(gb, turn, from, to) ==
    ~is_in_check([gb EXCEPT !.board =
         SetCell(SetCell(SetCell(gb.board, from.row, from.col, NoPiece),
                         from.row, to.col, NoPiece),
                 to.row, to.col, <<"Pawn", turn>>)], turn)

\* The empty square diagonally ahead of the pawn on `from`, dc columns aside,
\* is offered exactly when the pawn beside it has just advanced two squares
OfferedOnlyInWindow(gb, turn, from, to) ==
    (/\ At(gb.board, from) = <<"Pawn", turn>>
     /\ is_valid(to)
     /\ At(gb.board, to) = NoPiece)
        => (to \in get_authorized_positions(gb, turn, from)
              <=> /\ JustAdvancedTwo(gb, turn, Coord(from.row, to.col), Forward(gb, turn))
                  /\ EnPassantSafe(gb, turn, from, to))

\* C14: an en-passant destination is among the capturing pawn's authorized
\* positions on the ply that immediately follows the enemy pawn's two-square
\* advance, and on no later ply.
C14_EnPassantWindow ==
    app.game.game_state = "Playing" =>
        \A from \in AllCoords, dc \in {-1, 1} :
            OfferedOnlyInWindow(GB, app.game.player_turn, from,
                Coord(from.row + Forward(GB, app.game.player_turn), from.col + dc))

\* Both sides have made another move and the pawns still stand side by side:
\* the capturing pawn is selected and the square behind the other is not offered
C14_Witness ==
    /\ plies = 2
    /\ app.game.ui.selected_coordinates = Coord(3, 7)
    /\ At(GB.board, Coord(3, 7)) = <<"Pawn", app.game.player_turn>>
    /\ At(GB.board, Coord(3, 6)) = <<"Pawn", Opposite(app.game.player_turn)>>
    /\ At(GB.board, Coord(2, 6)) = NoPiece
    /\ Coord(2, 6) \notin get_authorized_positions(GB, app.game.player_turn, Coord(3, 7))

\* The position execute_move leaves when the side to move plays from -> to
AfterMove(g, from, to) == execute_move(g, from, to).game_board

\* C15: for every piece of the side to move and every destination
\* get_authorized_positions returns for it, the position execute_move yields,
\* special-move side effects included, has the mover's own king not attacked.
C15_AuthorizedMovesKeepKingSafe ==
    \A from \in PiecesOf(GB.board, app.game.player_turn) :
        \A to \in get_authorized_positions(GB, app.game.player_turn, from) :
            /\ execute_move(app.game, from, to).panicked = app.game.panicked
            /\ Len(AfterMove(app.game, from, to).move_history) = Len(GB.move_history) + 1
            /\ ~is_in_check(AfterMove(app.game, from, to), app.game.player_turn)

\* A ply was applied and the side to move has a piece some of whose
\* pseudo-legal destinations are not authorized: it is pinned
C15_Witness ==
    /\ plies > 0
    /\ app.game.game_state = "Playing"
    /\ \E from \in PiecesOf(GB.board, app.game.player_turn) :
          /\ get_piece_type(GB, from) # "King"
          /\ PseudoLegal(GB, from, get_piece_type(GB, from), app.game.player_turn)
                 \ get_authorized_positions(GB, app.game.player_turn, from) # {}

\* C16: promote_piece called with a selector outside 0..3 aborts, in every
\* state, move_history empty or not; it never goes on with the selector
\* accepted or replaced.
C16_SelectorOutOfRangeAborts ==
    [][\A selector \in ApiSelectors :
          ( /\ selector \notin 0..3
            /\ app'.game = promote_piece(WithSelector(app.game, selector)) )
          => app'.game.panicked]_vars

\* C17: in every reachable state of a game started from the default position
\* player_turn is White iff move_history holds an even number of plies, and
\* consecutive move_history entries have opposite piece_color.
C17_TurnsAlternate ==
    /\ app.game.player_turn = (IF Len(GB.move_history) % 2 = 0 THEN "White" ELSE "Black")
    /\ \A i \in 1..(Len(GB.move_history) - 1) :
          GB.move_history[i + 1].piece_color = Opposite(GB.move_history[i].piece_color)

\* Black has just answered a move of White
C17_Witness ==
    /\ plies > 0
    /\ Len(GB.move_history) > 1
    /\ LastMove(GB).piece_color = "Black"
    /\ app.game.player_turn = "White"
    /\ app.game.game_state = "Playing"

\* The game of application `a` is a fresh one and no popup is shown
FreshGame(a) ==
    /\ a.game.game_board.board = init_board
    /\ ~a.game.game_board.flipped
    /\ a.game.game_board.move_history = <<>>
    /\ a.game.game_board.board_history = <<init_board>>
    /\ a.game.game_board.consecutive_non_pawn_or_capture = 0
    /\ a.game.player_turn = "White"
    /\ a.game.game_state = "Playing"
    /\ ~is_cell_selected(a.game.ui)
    /\ a.current_popup = "None"

\* C18: the restart key, pressed in any reachable state (Promotion, Checkmate
\* and Draw included), leaves the starting position, an empty move_history, a
\* board_history of the initial snapshot alone, White to move, game_state
\* Playing, no cell selected and no popup shown.
C18_RestartFresh ==
    /\ [](~app.game.panicked => FreshGame(handle_key_events(app, "Press", "r")))
    /\ [][app' = handle_key_events(app, "Press", "r") => FreshGame(app')]_vars

\* The game was restarted after a ply, on the game page
C18_Witness ==
    /\ plies > 0
    /\ app.current_page = "Solo"
    /\ FreshGame(app)
    /\ app.game.ui = UIDefault

\* The same game with the board turned round
Twin(g) == [g EXCEPT !.game_board = flip_the_board(@)]

\* Game g once the move intent from -> to has been submitted as a cell click
AfterIntent(g, from, to) == handle_cell_click(Selecting(g, from, to))

\* g1 and g2 hold the same logical position and state, on boards turned
\* round with respect to one another
SameLogicalGame(g1, g2) ==
    /\ g2.game_board.board = flip_the_board(g1.game_board).board
    /\ g2.game_board.flipped # g1.game_board.flipped
    /\ g2.game_board.taken_pieces = g1.game_board.taken_pieces
    /\ g2.game_board.consecutive_non_pawn_or_capture
           = g1.game_board.consecutive_non_pawn_or_capture
    /\ Len(g2.game_board.move_history) = Len(g1.game_board.move_history)
    /\ g2.player_turn = g1.player_turn
    /\ g2.game_state = g1.game_state
    /\ g2.panicked = g1.panicked

\* C19: a game and the same game with the board flipped offer the same
\* logical destinations to every piece of the side to move, and the same
\* logical move intent leaves them in the same logical position (same squares
\* vacated, filled and captured) and the same game_state.
C19_OrientationIndependent ==
    (app.game.game_state = "Playing" /\ ~app.game.panicked) =>
        \A from \in PiecesOf(GB.board, app.game.player_turn) :
            /\ get_authorized_positions(Twin(app.game).game_board, app.game.player_turn,
                                        FlipCoord(from))
                  = {FlipCoord(to) : to \in
                        get_authorized_positions(GB, app.game.player_turn, from)}
            /\ \A to \in get_authorized_positions(GB, app.game.player_turn, from) :
                  SameLogicalGame(AfterIntent(app.game, from, to),
                                  AfterIntent(Twin(app.game), FlipCoord(from), FlipCoord(to)))

\* C20: in every reachable state every move_history entry has valid `from`
\* and `to` (row and column in 0..7), and ui.selected_coordinates is valid or
\* the undefined sentinel.
C20_StoredCoordinatesValid ==
    /\ \A i \in 1..Len(GB.move_history) :
          is_valid(GB.move_history[i].from) /\ is_valid(GB.move_history[i].to)
    /\ \/ is_valid(app.game.ui.selected_coordinates)
       \/ app.game.ui.selected_coordinates = undefined

\* After a ply a click has stored an empty cell as the selection
C20_Witness ==
    /\ plies > 0
    /\ app.game.ui.mouse_used
    /\ is_valid(app.game.ui.selected_coordinates)
    /\ At(GB.board, app.game.ui.selected_coordinates) = NoPiece

\* 1.f3 e5 2.g4 Qh4, as plies <<file, rank, file, rank>>
FoolsMate == Append(FoolsMateLine, <<4,8,8,4>>)

\* The game played so far is the fool's mate from the starting position
FoolsMatePlayed(gb) ==
    /\ gb.board_history[1] = init_board
    /\ Len(gb.move_history) = Len(FoolsMate)
    /\ \A i \in 1..Len(FoolsMate) :
          /\ gb.move_history[i].from = Square(FoolsMate[i][1], FoolsMate[i][2], i)
          /\ gb.move_history[i].to = Square(FoolsMate[i][3], FoolsMate[i][4], i)

\* C21: once the four plies of the fool's mate have been applied from the
\* starting position through the click path, White is to move, is_checkmate
\* holds for White and game_state is Checkmate.
C21_FoolsMateIsCheckmate ==
    FoolsMatePlayed(GB) =>
        /\ app.game.player_turn = "White"
        /\ is_checkmate(GB, "White")
        /\ app.game.game_state = "Checkmate"

C21_Witness == FoolsMatePlayed(GB) /\ ~app.game.panicked

\* The grid turned by 180 degrees
Rotated(board) == [i \in 1..8 |-> [j \in 1..8 |-> board[9 - i][9 - j]]]

\* Ply by ply, the same origins and destinations
SameIntents(before, after) ==
    /\ Len(after) = Len(before)
    /\ \A i \in 1..Len(before) : after[i].from = before[i].from /\ after[i].to = before[i].to

\* C22: while game_state is Promotion every cell click and mouse click either
\* applies the promotion choice or does nothing: no move_history entry is
\* appended and no piece changes square (only a restart installs a new game).
C22_NoPlyWhilePromotion ==
    [][(app.game.game_state = "Promotion" /\ app'.game # GameDefault) =>
          /\ SameIntents(GB.move_history, app'.game.game_board.move_history)
          /\ \/ app'.game.game_board.board = GB.board
             \/ \E s \in 0..3 :
                   \/ app'.game.game_board.board = PromotedBoard(GB, ChosenKind(s))
                   \/ app'.game.game_board.board = Rotated(PromotedBoard(GB, ChosenKind(s)))]_vars

\* The promotion was resolved by a click on the popup, which went on to store a cell
C22_Witness ==
    /\ plies = 0
    /\ PromotionApplied(GB)
    /\ app.game.game_state = "Playing"
    /\ app.game.ui.mouse_used
    /\ app.game.ui.selected_coordinates.row = 0

\* The application once a key press has put the cursor back after mouse use
AfterReset(a) == reset_mouse_used(a)

\* C23: in a running game (page Solo, game_state Playing) Right and Left move
\* the board cursor as Up and Down do, through cursor_right and cursor_left on
\* the authorized positions of the selection, and leave menu_cursor unchanged,
\* whether or not a color has been selected.
C23_LeftRightMoveBoardCursor ==
    (app.current_page = "Solo" /\ app.game.game_state = "Playing" /\ ~app.game.panicked) =>
        /\ handle_key_events(app, "Press", "Right").menu_cursor = app.menu_cursor
        /\ handle_key_events(app, "Press", "Left").menu_cursor = app.menu_cursor
        /\ handle_key_events(app, "Press", "Right").game.ui =
               cursor_right(AfterReset(app).game.ui, SelectedPositions(AfterReset(app)))
        /\ handle_key_events(app, "Press", "Left").game.ui =
               cursor_left(AfterReset(app).game.ui, SelectedPositions(AfterReset(app)))

\* The game with the cursor on cell c
CursorOn(g, c) == [g EXCEPT !.ui.cursor_coordinates = c]

\* The cursor of game g is on a piece of the side to move that can move
MovablePieceUnderCursor(g) ==
    /\ get_piece_color(g.game_board, g.ui.cursor_coordinates) = g.player_turn
    /\ get_authorized_positions(g.game_board, g.player_turn, g.ui.cursor_coordinates) # {}

\* C24: with the cursor on any cell, select_cell stores the cursor as the
\* selection when the cell holds a piece of the side to move with at least one
\* authorized position and leaves selected_coordinates unchanged otherwise; it
\* never changes the board, the histories, player_turn or game_state.
C24_SelectCellOnlyMovable ==
    \A c \in AllCoords :
        /\ RulesState(select_cell(CursorOn(app.game, c))) = RulesState(app.game)
        /\ select_cell(CursorOn(app.game, c)).ui.selected_coordinates =
               IF MovablePieceUnderCursor(CursorOn(app.game, c)) THEN c
               ELSE app.game.ui.selected_coordinates

\* Enter has selected a piece of the side to move, the cursor is on its first destination
C24_Witness ==
    /\ ~app.game.ui.mouse_used
    /\ is_cell_selected(app.game.ui)
    /\ get_piece_color(GB, app.game.ui.selected_coordinates) = app.game.player_turn
    /\ app.game.ui.selected_piece_cursor = 0
    /\ app.game.ui.cursor_coordinates \in SelectedPositions(app)

CursorKeys == {"Up", "Down", "Left", "Right"}

\* The application on page `page` with `color` as the color chosen for a bot game
Showing(a, page, color) == [a EXCEPT !.current_page = page, !.selected_color = color]

\* C25: a cursor-movement key press (arrows / h j k l) never changes the
\* board, move_history, board_history, the halfmove counter, player_turn or
\* game_state, in any page and any game state, with or without a chosen color.
C25_CursorKeysKeepGame ==
    \A code \in CursorKeys, page \in {"Home", "Solo", "Credit"}, color \in {"None", "White"} :
        RulesState(handle_key_events(Showing(app, page, color), "Press", code).game)
            = RulesState(app.game)

\* Right or Left has been pressed while a promotion was pending, or Down has
\* taken the board cursor to the second row from the bottom of a game in play
C25_Witness ==
    /\ ~app.game.ui.mouse_used
    /\ app.menu_cursor = 1
    /\ \/ app.game.game_state = "Promotion"
       \/ /\ app.game.game_state = "Playing"
          /\ app.game.ui.cursor_coordinates.row = 6

\* The cell ply i left, as it was when the ply was played
MovedPiece(gb, i) ==
    IF i = 1 THEN At(gb.board_history[1], gb.move_history[1].from)
    ELSE At(gb.board_history[i], FlipCoord(gb.move_history[i].from))

\* C26: only pieces of the side to move are moved: for every ply of
\* move_history the cell the ply left held a piece of the color whose turn it
\* was (White on odd plies), and piece_color records that color.
C26_MoverOwnsPiece ==
    \A i \in 1..Len(GB.move_history) :
        /\ MovedPiece(GB, i) # NoPiece
        /\ MovedPiece(GB, i)[2] = GB.move_history[i].piece_color
        /\ GB.move_history[i].piece_color = IF i % 2 = 1 THEN "White" ELSE "Black"

\* Black has just played a ply by mouse, on the board as turned towards Black
C26_Witness ==
    /\ plies > 0
    /\ Len(GB.move_history) % 2 = 0
    /\ app.game.ui.mouse_used
    /\ LastMove(GB).piece_color = "Black"

\* C27: in every reachable state with game_state Playing the board has been
\* flipped once per completed ply: the number of flips has the parity of
\* len(move_history) and the side to move sits at the bottom of the board.
C27_FlipPerPly ==
    (app.game.game_state = "Playing" /\ ~app.game.panicked) =>
        /\ GB.flipped = (Len(GB.move_history) % 2 = 1)
        /\ Bottom(GB) = app.game.player_turn

\* The application after a left click on `point`, in a build with or without overflow checks
LeftClick(a, point, overflow_checks) ==
    handle_mouse_events(a, "DownLeft", point[1], point[2], overflow_checks)

\* C28: handle_mouse_events never underflows its unsigned arithmetic: for
\* every left click in every game state column - top_x and row - top_y are
\* evaluated only when column >= top_x and row >= top_y, so that no click
\* aborts a build with overflow checks and builds with and without the checks
\* handle every click alike.
C28_NoUnderflow ==
    ~app.game.panicked =>
        \A point \in MousePoints :
            /\ ~LeftClick(app, point, TRUE).game.panicked
            /\ LeftClick(app, point, TRUE) = LeftClick(app, point, FALSE)

\* Board `board` with the piece on cell c turned into one of kind `kind`, same color
KindChanged(board, c, kind) == SetCell(board, c.row, c.col, <<kind, At(board, c)[2]>>)

ColorCount(board, color) ==
    Cardinality({c \in AllCoords : At(board, c) # NoPiece /\ At(board, c)[2] = color})

\* Ply m, played on grid `before`, took an enemy piece: one stood on its
\* destination, or a pawn went diagonally to an empty cell (en passant)
TookPiece(before, m) ==
    \/ /\ At(before, m.to) # NoPiece
       /\ At(before, m.to)[2] = Opposite(m.piece_color)
    \/ /\ At(before, m.from)[1] = "Pawn"
       /\ m.from.col # m.to.col
       /\ At(before, m.to) = NoPiece

\* C30: piece conservation per ply: the last applied ply, with its promotion
\* choice if one was applied, has left the mover's piece count unchanged and the
\* opponent's reduced by exactly 1 if it was a capture (en passant included)
\* and by 0 otherwise; castling and promotion create and destroy no piece.
C30_PieceConservation ==
    (Len(GB.move_history) > 0 /\ ~app.game.panicked) =>
        /\ ColorCount(GB.board, LastMove(GB).piece_color)
               = ColorCount(BoardBeforeLast(GB), LastMove(GB).piece_color)
        /\ ColorCount(GB.board, Opposite(LastMove(GB).piece_color))
               = ColorCount(BoardBeforeLast(GB), Opposite(LastMove(GB).piece_color))
                 - (IF TookPiece(BoardBeforeLast(GB), LastMove(GB)) THEN 1 ELSE 0)

\* A pawn has taken a piece on the back rank and has been promoted
C30_Witness ==
    /\ plies > 0
    /\ PromotionApplied(GB)
    /\ TookPiece(BoardBeforeLast(GB), LastMove(GB))
    /\ ColorCount(GB.board, "Black") = 14

====
